---- MODULE Spec2Model ----
(***************************************************************************)
(* RetryAfterMiddleware (src/src/lib.rs): a reqwest middleware that keeps  *)
(* a map Url -> SystemTime behind a tokio RwLock, sleeps before a request  *)
(* whose url has a stored instant in the future, and updates the map from  *)
(* the Retry-After header of every successful response.                    *)
(*                                                                         *)
(* Time is a discrete clock of whole seconds; SystemTime::now() and the    *)
(* tokio timer read the same clock.  Each task runs handle() again and     *)
(* again; a step of the model is the code between two await points.        *)
(***************************************************************************)
EXTENDS Integers, Sequences, FiniteSets, TLC

VARIABLES
    now,         \* the clock, in seconds since the epoch
    retry_after, \* the HashMap<Url, SystemTime>: url -> None (no entry) or Some(instant)
    readers,     \* tasks holding a read guard of the RwLock
    writer,      \* the task holding the write guard, or NoTask
    waiters,     \* the RwLock's FIFO queue of tasks waiting for a guard
    pc,          \* where each task's handle() future is
    url,         \* handle's local `url`
    timestamp,   \* handle's local `timestamp` (line 76, then line 90)
    res,         \* handle's local `res`: what next.run produced
    ret,         \* what handle returned to its caller
    header_seen  \* urls for which next.run has produced a response carrying the header

vars == <<now, retry_after, readers, writer, waiters, pc, url, timestamp, res, ret, header_seen>>

----------------------------------------------------------------------------
(* Bounds *)

MaxTime == 2

(* Longest header text of the sequential specification. *)
MaxLen == 2

(* Width of u64, scaled down; SystemTime counts seconds in a signed integer of that width. *)
U64Bits == 6

U64Max == 2 ^ U64Bits - 1

SystemTimeMax == 2 ^ (U64Bits - 1) - 1

Tasks == {"t1", "t2", "t3"}

URLS == {"X", "Y"}

(* The urls each caller requests. *)
Targets == [t \in Tasks |-> IF t = "t1" THEN {"X"} ELSE IF t = "t3" THEN {"Y"} ELSE URLS]

NoTask == "none"

(* Option<T>: None is the empty sequence, Some(x) the one-element sequence. *)
None == <<>>

Some(x) == <<x>>

----------------------------------------------------------------------------
(* Header values are sequences of characters.  An RFC 2822 date is the     *)
(* fixed text of the first minute of the epoch around two second digits.   *)

Digits == {"0", "1", "2", "3", "4", "5", "6", "7", "8", "9"}

NonAscii == "0xFF"

DatePrefix == "Thu, 01 Jan 1970 00:00:"

DateSuffix == " GMT"

DigitVal(c) ==
    CASE c = "0" -> 0 [] c = "1" -> 1 [] c = "2" -> 2 [] c = "3" -> 3 [] c = "4" -> 4
      [] c = "5" -> 5 [] c = "6" -> 6 [] c = "7" -> 7 [] c = "8" -> 8 [] c = "9" -> 9

RECURSIVE DecimalValue(_)
DecimalValue(s) ==
    IF s = <<>> THEN 0
    ELSE 10 * DecimalValue(SubSeq(s, 1, Len(s) - 1)) + DigitVal(s[Len(s)])

(* str::parse::<u64>: an optional '+', then one or more ASCII digits; a    *)
(* value above u64::MAX is an error.                                       *)
parse_u64(val) ==
    LET s == IF val # <<>> /\ val[1] = "+" THEN Tail(val) ELSE val
    IN  IF s # <<>> /\ (\A i \in 1..Len(s) : s[i] \in Digits) /\ DecimalValue(s) <= U64Max
        THEN Some(DecimalValue(s))
        ELSE None

(* SystemTime::checked_add, which `SystemTime + Duration` unwraps. *)
checked_add(t_now, secs) ==
    IF t_now + secs > SystemTimeMax THEN None ELSE Some(t_now + secs)

(* OffsetDateTime::parse(val, &Rfc2822), then the conversion into SystemTime. *)
parse_rfc2822(val) ==
    IF /\ Len(val) = 4
       /\ val[1] = DatePrefix
       /\ val[2] \in Digits
       /\ val[3] \in Digits
       /\ val[4] = DateSuffix
       /\ DecimalValue(<<val[2], val[3]>>) < 60
    THEN Some(DecimalValue(<<val[2], val[3]>>))
    ELSE None

(* HeaderValue::to_str: fails on a byte that is not visible ASCII. *)
to_str(val) ==
    IF \E i \in 1..Len(val) : val[i] = NonAscii THEN None ELSE Some(val)

(* Mutation: the delay is stored without adding it to now. *)
parse_retry_value_no_now(val, t_now) ==
    LET secs == parse_u64(val)
        date == parse_rfc2822(val)
    IN  IF secs # None THEN Some(secs[1])
        ELSE IF date # None THEN Some(date[1])
        ELSE None

parse_retry_value(val, t_now) ==
    LET secs == parse_u64(val)
        date == parse_rfc2822(val)
    IN  IF secs # None THEN Some(t_now + secs[1])
        ELSE IF date # None THEN Some(date[1])
        ELSE None

(* Line 58 panics ("overflow when adding duration to instant") when checked_add fails. *)
parse_retry_value_panics(val, t_now) ==
    parse_u64(val) # None /\ checked_add(t_now, parse_u64(val)[1]) = None

----------------------------------------------------------------------------
(* What next.run can produce. *)

HeaderValues ==
    { <<"1">>, <<"-", "1">>, <<NonAscii>>, <<DatePrefix, "0", "2", DateSuffix>> }

OkResponse(h) == [ok |-> TRUE, code |-> 200, hdr |-> h]

TransportError == [ok |-> FALSE, code |-> 0, hdr |-> None]

Responses ==
    {OkResponse(None)} \cup {OkResponse(Some(v)) : v \in HeaderValues} \cup {TransportError}

NoResult == [ok |-> FALSE, code |-> -1, hdr |-> None]

----------------------------------------------------------------------------
(* The tokio RwLock: a fair (FIFO) queue; a waiting writer holds back the  *)
(* readers that arrive after it.                                           *)

WantsWrite == {t \in Tasks : pc[t] = "wait_write"}

RECURSIVE Grant(_, _, _)
Grant(rs, w, q) ==
    IF q = <<>> \/ w # NoTask
    THEN [readers |-> rs, writer |-> w, waiters |-> q]
    ELSE IF Head(q) \in WantsWrite
         THEN IF rs = {}
              THEN [readers |-> rs, writer |-> Head(q), waiters |-> Tail(q)]
              ELSE [readers |-> rs, writer |-> w, waiters |-> q]
         ELSE Grant(rs \cup {Head(q)}, w, Tail(q))

SetLock(g) ==
    /\ readers' = g.readers
    /\ writer' = g.writer
    /\ waiters' = g.waiters

CanReadNow == writer = NoTask /\ waiters = <<>>

CanWriteNow == writer = NoTask /\ readers = {} /\ waiters = <<>>

Without(q, t) == SelectSeq(q, LAMBDA x : x # t)

----------------------------------------------------------------------------
Init ==
    /\ now = 0
    /\ retry_after = [u \in URLS |-> None]
    /\ readers = {}
    /\ writer = NoTask
    /\ waiters = <<>>
    /\ pc = [t \in Tasks |-> "idle"]
    /\ url = [t \in Tasks |-> CHOOSE u \in Targets[t] : TRUE]
    /\ timestamp = [t \in Tasks |-> None]
    /\ res = [t \in Tasks |-> NoResult]
    /\ ret = [t \in Tasks |-> NoResult]
    /\ header_seen = {}

----------------------------------------------------------------------------
(* handle, lines 76-84, once read().await has resolved: get(&url), the     *)
(* duration_since test, and either the sleep (guard still alive, because   *)
(* `timestamp` borrows from it) or the drop of the guard and next.run.     *)

(* Mutation: the operands of duration_since swapped. *)
duration_since_swapped(ts, t_now) == t_now >= ts

duration_since_ok(ts, t_now) == ts >= t_now

SleepsOn(entry, t_now) == entry # None /\ duration_since_ok(entry[1], t_now)

(* Mutation: the read guard is bound to a local that lives to the end of handle. *)
AfterReadKeepsGuard(t, u) ==
    LET entry == retry_after[u]
    IN  /\ pc' = [pc EXCEPT ![t] = IF SleepsOn(entry, now) THEN "sleeping" ELSE "in_flight"]
        /\ timestamp' = [timestamp EXCEPT ![t] = IF SleepsOn(entry, now) THEN entry ELSE None]
        /\ readers' = readers \cup {t}
        /\ UNCHANGED <<writer, waiters>>

AfterRead(t, u) ==
    LET entry == retry_after[u]
    IN  IF SleepsOn(entry, now)
        THEN /\ pc' = [pc EXCEPT ![t] = "sleeping"]
             /\ timestamp' = [timestamp EXCEPT ![t] = entry]
             /\ readers' = readers \cup {t}
             /\ UNCHANGED <<writer, waiters>>
        ELSE /\ pc' = [pc EXCEPT ![t] = "in_flight"]
             /\ timestamp' = [timestamp EXCEPT ![t] = None]
             /\ SetLock(Grant(readers \ {t}, writer, waiters))

(* A caller invokes handle(req) with req.url() = u: lines 74-76. *)
Call(t, u) ==
    /\ pc[t] \in {"idle", "done", "cancelled", "cancelled_asleep", "panicked"}
    /\ url' = [url EXCEPT ![t] = u]
    /\ res' = [res EXCEPT ![t] = NoResult]
    /\ ret' = [ret EXCEPT ![t] = NoResult]
    /\ IF CanReadNow
       THEN AfterRead(t, u)
       ELSE /\ pc' = [pc EXCEPT ![t] = "wait_read"]
            /\ waiters' = Append(waiters, t)
            /\ timestamp' = [timestamp EXCEPT ![t] = None]
            /\ UNCHANGED <<readers, writer>>
    /\ UNCHANGED <<now, retry_after, header_seen>>

(* The read guard was handed to a queued task; its future is polled again. *)
ResumeRead(t) ==
    /\ pc[t] = "wait_read"
    /\ t \in readers
    /\ AfterRead(t, url[t])
    /\ UNCHANGED <<now, retry_after, url, res, ret, header_seen>>

(* tokio::time::sleep(duration) completes: line 80; the guard drops at line 82. *)
Wake(t) ==
    /\ pc[t] = "sleeping"
    /\ now >= timestamp[t][1]
    /\ pc' = [pc EXCEPT ![t] = "in_flight"]
    /\ timestamp' = [timestamp EXCEPT ![t] = None]
    /\ SetLock(Grant(readers \ {t}, writer, waiters))
    /\ UNCHANGED <<now, retry_after, url, res, ret, header_seen>>

(* Mutation: the clock's advance expires the entries whose instant has passed. *)
TickExpires ==
    /\ now < MaxTime
    /\ now' = now + 1
    /\ retry_after' = [u \in URLS |->
            IF retry_after[u] # None /\ retry_after[u][1] <= now + 1 THEN None ELSE retry_after[u]]
    /\ UNCHANGED <<readers, writer, waiters, pc, url, timestamp, res, ret, header_seen>>

Tick ==
    /\ now < MaxTime
    /\ now' = now + 1
    /\ UNCHANGED <<retry_after, readers, writer, waiters, pc, url, timestamp, res, ret, header_seen>>

----------------------------------------------------------------------------
(* Lines 86-102: what the response asks of the map. *)

(* Mutation: a header that does not parse is handled like a parsed one. *)
NeedsWriteAnyHeader(r, t_now) == r.ok

(* Mutation: the header is inspected without the `if let Ok(res)` test. *)
NeedsWriteOnFailure(r, t_now) ==
    \/ r.hdr = None
    \/ /\ to_str(r.hdr[1]) # None
       /\ parse_retry_value(to_str(r.hdr[1])[1], t_now) # None

NeedsWrite(r, t_now) ==
    /\ r.ok
    /\ \/ r.hdr = None
       \/ /\ to_str(r.hdr[1]) # None
          /\ parse_retry_value(to_str(r.hdr[1])[1], t_now) # None

Panics(r, t_now) ==
    /\ r.ok
    /\ r.hdr # None
    /\ to_str(r.hdr[1]) # None
    /\ parse_retry_value_panics(to_str(r.hdr[1])[1], t_now)

Parsed(r, t_now) ==
    IF r.hdr = None \/ to_str(r.hdr[1]) = None
    THEN None
    ELSE parse_retry_value(to_str(r.hdr[1])[1], t_now)

(* Mutation: the `_` arm of the match does nothing. *)
UpdatedKeepsOnAbsent(map, u, r, ts) ==
    IF r.hdr = None THEN map ELSE [map EXCEPT ![u] = ts]

(* Mutation: one instant shared by every url. *)
UpdatedEveryUrl(map, u, r, ts) ==
    [k \in URLS |-> IF r.hdr = None THEN None ELSE ts]

(* Mutation: the new instant is merged with the old one (the later wins). *)
UpdatedMax(map, u, r, ts) ==
    IF r.hdr = None THEN [map EXCEPT ![u] = None]
    ELSE IF map[u] # None /\ map[u][1] > ts[1] THEN map
    ELSE [map EXCEPT ![u] = ts]

(* Mutation: entry(url).or_insert(timestamp), which keeps an existing entry. *)
UpdatedIfAbsent(map, u, r, ts) ==
    IF r.hdr = None THEN [map EXCEPT ![u] = None]
    ELSE IF map[u] # None THEN map
    ELSE [map EXCEPT ![u] = ts]

(* insert(url, timestamp) at line 94, remove(&url) at line 99. *)
Updated(map, u, r, ts) ==
    IF r.hdr = None THEN [map EXCEPT ![u] = None] ELSE [map EXCEPT ![u] = ts]

(* Mutation: a header that does not parse is reported as a failure. *)
HandleReturnMasksMalformed(r) ==
    IF r.ok /\ r.hdr # None /\ Parsed(r, 0) = None THEN TransportError ELSE r

(* Line 103. *)
HandleReturn(r) == r

(* next.run(req, extensions).await resolves with r: lines 84-103. *)
ProceedReturns(t, r) ==
    /\ pc[t] = "in_flight"
    /\ res' = [res EXCEPT ![t] = r]
    /\ header_seen' = IF r.ok /\ r.hdr # None THEN header_seen \cup {url[t]} ELSE header_seen
    /\ IF Panics(r, now)
       THEN /\ pc' = [pc EXCEPT ![t] = "panicked"]
            /\ UNCHANGED <<retry_after, readers, writer, waiters, timestamp, ret>>
       ELSE IF ~NeedsWrite(r, now)
       THEN /\ pc' = [pc EXCEPT ![t] = "done"]
            /\ ret' = [ret EXCEPT ![t] = HandleReturn(r)]
            /\ UNCHANGED <<retry_after, readers, writer, waiters, timestamp>>
       ELSE IF CanWriteNow
       THEN /\ retry_after' = Updated(retry_after, url[t], r, Parsed(r, now))
            /\ pc' = [pc EXCEPT ![t] = "done"]
            /\ ret' = [ret EXCEPT ![t] = HandleReturn(r)]
            /\ UNCHANGED <<readers, writer, waiters, timestamp>>
       ELSE /\ pc' = [pc EXCEPT ![t] = "wait_write"]
            /\ timestamp' = [timestamp EXCEPT ![t] = Parsed(r, now)]
            /\ waiters' = Append(waiters, t)
            /\ UNCHANGED <<retry_after, readers, writer, ret>>
    /\ UNCHANGED <<now, url>>

(* The write guard was handed to a queued task: lines 94 / 99, then 103. *)
ResumeWrite(t) ==
    /\ pc[t] = "wait_write"
    /\ writer = t
    /\ retry_after' = Updated(retry_after, url[t], res[t], timestamp[t])
    /\ pc' = [pc EXCEPT ![t] = "done"]
    /\ ret' = [ret EXCEPT ![t] = HandleReturn(res[t])]
    /\ timestamp' = [timestamp EXCEPT ![t] = None]
    /\ SetLock(Grant({}, NoTask, waiters))
    /\ UNCHANGED <<now, url, res, header_seen>>

(* Mutation: the read guard outlives the dropped future. *)
CancelLeaksGuard(t) ==
    /\ pc[t] \in {"wait_read", "sleeping", "in_flight", "wait_write"}
    /\ pc' = [pc EXCEPT ![t] = IF pc[t] = "sleeping" THEN "cancelled_asleep" ELSE "cancelled"]
    /\ timestamp' = [timestamp EXCEPT ![t] = None]
    /\ res' = [res EXCEPT ![t] = NoResult]
    /\ waiters' = Without(waiters, t)
    /\ UNCHANGED <<now, retry_after, readers, writer, url, ret, header_seen>>

(* The caller drops the future of handle at one of its await points; the   *)
(* guards and locals it owns are dropped with it.  pc keeps whether the    *)
(* future was dropped inside the sleep of line 80.                         *)
Cancel(t) ==
    /\ pc[t] \in {"wait_read", "sleeping", "in_flight", "wait_write"}
    /\ pc' = [pc EXCEPT ![t] = IF pc[t] = "sleeping" THEN "cancelled_asleep" ELSE "cancelled"]
    /\ timestamp' = [timestamp EXCEPT ![t] = None]
    /\ res' = [res EXCEPT ![t] = NoResult]
    /\ SetLock(Grant(readers \ {t}, IF writer = t THEN NoTask ELSE writer, Without(waiters, t)))
    /\ UNCHANGED <<now, retry_after, url, ret, header_seen>>

Next ==
    \/ \E t \in Tasks : \E u \in Targets[t] : Call(t, u)
    \/ \E t \in Tasks : ResumeRead(t)
    \/ \E t \in Tasks : Wake(t)
    \/ Tick
    \/ \E t \in Tasks, r \in Responses : ProceedReturns(t, r)
    \/ \E t \in Tasks : ResumeWrite(t)
    \/ \E t \in Tasks : Cancel(t)

Spec == Init /\ [][Next]_vars

----------------------------------------------------------------------------
(* Calls that are not dropped, under a scheduler that polls every woken    *)
(* task, a next.run that resolves, and a clock that reaches every stored   *)
(* instant (the responses keep the instants within MaxTime).               *)

(* The two callers of X get any outcome that keeps the instant within     *)
(* MaxTime; the caller of Y gets responses without the header.             *)
LiveTargets == [t \in Tasks |-> IF t = "t3" THEN "Y" ELSE "X"]

LiveResponses ==
    [t \in Tasks |-> IF t = "t3" THEN {OkResponse(None)}
                     ELSE {OkResponse(None), OkResponse(Some(<<"1">>)), TransportError}]

LiveProceedReturns(t) ==
    \E r \in LiveResponses[t] :
        /\ Parsed(r, now) # None => Parsed(r, now)[1] <= MaxTime
        /\ ProceedReturns(t, r)

(* The steps of a call that its own future takes once polled. *)
LiveStep(t) == ResumeRead(t) \/ Wake(t) \/ LiveProceedReturns(t) \/ ResumeWrite(t)

NextLive ==
    \/ \E t \in Tasks : Call(t, LiveTargets[t])
    \/ \E t \in Tasks : ResumeRead(t)
    \/ \E t \in Tasks : Wake(t)
    \/ Tick
    \/ \E t \in Tasks : LiveProceedReturns(t)
    \/ \E t \in Tasks : ResumeWrite(t)

Fairness ==
    /\ WF_vars(Tick)
    /\ \A t \in Tasks : WF_vars(LiveStep(t))

SpecLive == Init /\ [][NextLive]_vars /\ Fairness

----------------------------------------------------------------------------
(* One caller, one url, and every header text of at most MaxLen characters. *)

Alphabet == {"0", "1", "3", "6", "+", "-", "."}

Texts == UNION {[1..k -> Alphabet] : k \in 0..MaxLen}

SeqHeaderValues ==
    Texts \cup { <<NonAscii>>,
                 <<DatePrefix, "0", "0", DateSuffix>>,
                 <<DatePrefix, "0", "2", DateSuffix>>,
                 <<DatePrefix, "6", "1", DateSuffix>> }

SeqResponses ==
    {OkResponse(None)} \cup {OkResponse(Some(v)) : v \in SeqHeaderValues} \cup {TransportError}

NextSeq ==
    \/ Call("t1", "X")
    \/ Wake("t1")
    \/ Tick
    \/ \E r \in SeqResponses : ProceedReturns("t1", r)

SpecSeq == Init /\ [][NextSeq]_vars

TypeOK ==
    /\ now \in 0..MaxTime
    /\ \A u \in URLS : Len(retry_after[u]) <= 1
    /\ readers \subseteq Tasks
    /\ writer \in Tasks \cup {NoTask}
    /\ \A t \in Tasks : pc[t] \in {"idle", "wait_read", "sleeping", "in_flight", "wait_write",
                                   "done", "cancelled", "cancelled_asleep", "panicked"}

----------------------------------------------------------------------------
(* Steps of one task, read off a pair of states. *)

InQueue(t) == \E i \in 1..Len(waiters) : waiters[i] = t

(* The task passes line 76: it has the read guard and looks its url up. *)
Looks(t) ==
    /\ pc[t] \in {"idle", "done", "cancelled", "cancelled_asleep", "panicked", "wait_read"}
    /\ pc'[t] \in {"sleeping", "in_flight"}

(* The task invokes next.run: line 84. *)
Dispatches(t) == pc[t] # "in_flight" /\ pc'[t] = "in_flight"

(* next.run resolves for the task: line 84. *)
Responds(t) == pc[t] = "in_flight" /\ pc'[t] \in {"done", "wait_write"}

(* handle returns: line 103. *)
Returns(t) == pc[t] # "done" /\ pc'[t] = "done"

Unparseable == {Some(<<"-", "1">>), Some(<<NonAscii>>)}

----------------------------------------------------------------------------
(* C1: a response with Retry-After: N (or an HTTP-date T) stores the       *)
(* instant "time of the response + N" (or T) for the url, and next.run is  *)
(* never invoked for a url while the instant stored for it is still in     *)
(* the future.                                                             *)
C1_HeldUntilRelease ==
    [][\A t \in Tasks :
        /\ Dispatches(t) =>
              \/ retry_after[url'[t]] = None
              \/ retry_after[url'[t]][1] <= now
        /\ (Responds(t) /\ res'[t].ok /\ res'[t].hdr = Some(<<"1">>)) =>
              IF pc'[t] = "done"
              THEN retry_after'[url[t]] = Some(now + 1)
              ELSE timestamp'[t] = Some(now + 1)
        /\ (Responds(t) /\ res'[t].ok
              /\ res'[t].hdr = Some(<<DatePrefix, "0", "2", DateSuffix>>)) =>
              IF pc'[t] = "done"
              THEN retry_after'[url[t]] = Some(2)
              ELSE timestamp'[t] = Some(2)
        /\ (pc[t] = "wait_write" /\ Returns(t) /\ res[t].hdr # None) =>
              retry_after'[url[t]] = timestamp[t]
    ]_vars

(* A request is being held back for an instant that is still to come. *)
C1_Witness ==
    \E t \in Tasks :
        /\ pc[t] = "sleeping"
        /\ timestamp[t] = retry_after[url[t]]
        /\ timestamp[t][1] > now
        /\ \E s \in Tasks : pc[s] = "done" /\ url[s] = url[t] /\ ret[s].hdr = Some(<<"1">>)

(* C2: a task suspended in the pre-request sleep holds no guard of the     *)
(* lock, and no other task waits for the lock while the only guards are    *)
(* those of sleeping tasks.                                                *)
C2_SleeperHoldsNoLock ==
    /\ \A t \in Tasks : pc[t] = "sleeping" => t \notin readers
    /\ ~ /\ waiters # <<>>
         /\ writer = NoTask
         /\ readers # {}
         /\ \A s \in readers : pc[s] = "sleeping"

(* C3: a task whose url has no entry in the future never waits in the      *)
(* lock's queue while a task sleeping on another url holds a guard.        *)
C3_UnrelatedNotDelayed ==
    \A t \in Tasks :
        (InQueue(t) /\ ~SleepsOn(retry_after[url[t]], now)) =>
            \A s \in readers : ~(pc[s] = "sleeping" /\ url[s] # url[t])

(* C4: when handle returns a successful response without the header, the   *)
(* map has no entry for its url; and a lookup of a url without an entry    *)
(* goes on to next.run without sleeping.                                   *)
C4_AbsentHeaderClears ==
    [][\A t \in Tasks :
        /\ (Returns(t) /\ ret'[t].ok /\ ret'[t].hdr = None) =>
              retry_after'[url[t]] = None
        /\ (Looks(t) /\ retry_after[url'[t]] = None) => pc'[t] = "in_flight"
    ]_vars

(* An entry of X stored by one response has been removed by a later one. *)
C4_Witness ==
    \E t, s \in Tasks :
        /\ pc[t] = "done" /\ ret[t].ok /\ ret[t].hdr = None
        /\ pc[s] = "done" /\ url[s] = url[t] /\ ret[s].hdr = Some(<<"1">>)
        /\ retry_after[url[t]] = None

(* C5: a successful response whose header is present but does not parse    *)
(* makes handle return that response at once with the map unchanged.       *)
C5_UnparseableKeepsEntry ==
    [][\A t \in Tasks :
        (pc[t] = "in_flight" /\ pc'[t] # "in_flight" /\ res'[t].ok
            /\ res'[t].hdr \in Unparseable) =>
            /\ pc'[t] = "done"
            /\ retry_after' = retry_after
            /\ ret'[t] = res'[t]
    ]_vars

(* handle has returned an unparseable response and the pending entry is still there. *)
C5_Witness ==
    \E t \in Tasks :
        /\ pc[t] = "done" /\ ret[t].ok /\ ret[t].hdr \in Unparseable
        /\ retry_after[url[t]] # None
        /\ retry_after[url[t]][1] > now

(* C6: when next.run fails, handle returns that failure at once and the    *)
(* map is unchanged.                                                       *)
C6_FailureLeavesLedger ==
    [][\A t \in Tasks :
        (pc[t] = "in_flight" /\ pc'[t] \in {"done", "wait_write"} /\ ~res'[t].ok) =>
            /\ pc'[t] = "done"
            /\ retry_after' = retry_after
            /\ ret'[t] = res'[t]
            /\ ret'[t] = TransportError
    ]_vars

(* handle has returned a failure and the entry of its url is still there. *)
C6_Witness ==
    \E t \in Tasks :
        /\ pc[t] = "done" /\ ret[t] = TransportError
        /\ retry_after[url[t]] # None

(* C7: dropping handle's future inside the sleep leaves the map unchanged  *)
(* and the task without any guard or place in the queue; afterwards the    *)
(* task does nothing until its caller makes a new request.                 *)
C7_CancelledSleep ==
    [][\A t \in Tasks :
        /\ (pc[t] = "sleeping" /\ pc'[t] \notin {"sleeping", "in_flight"}) =>
              /\ pc'[t] = "cancelled_asleep"
              /\ retry_after' = retry_after
              /\ t \notin readers'
              /\ writer' # t
              /\ ~InQueue(t)'
        /\ (pc[t] = "cancelled_asleep" /\ pc'[t] # "cancelled_asleep") =>
              \E u \in Targets[t] : Call(t, u)
    ]_vars

(* A future was dropped in its sleep; the entry it waited for is intact and another task
   holds the write guard. *)
C7_Witness ==
    \E t \in Tasks :
        /\ pc[t] = "cancelled_asleep"
        /\ retry_after[url[t]] # None
        /\ retry_after[url[t]][1] > now
        /\ writer # NoTask

(* C8: the map starts empty, and a url for which next.run has never        *)
(* produced a response carrying the header has no entry and no task        *)
(* sleeping on it.                                                         *)
C8_NeverObservedNoEntry ==
    /\ header_seen = {} => \A u \in URLS : retry_after[u] = None
    /\ \A u \in URLS \ header_seen :
          /\ retry_after[u] = None
          /\ \A t \in Tasks : ~(pc[t] = "sleeping" /\ url[t] = u)

(* Y has answered requests but never with the header, while X has an entry. *)
C8_Witness ==
    /\ "Y" \notin header_seen
    /\ retry_after["X"] # None
    /\ \E t \in Tasks : pc[t] = "done" /\ url[t] = "Y" /\ ret[t].ok

(* C9: a lookup that finds an instant not later than now (equal to now     *)
(* included) does not sleep: the same step invokes next.run.               *)
C9_ElapsedNoSuspend ==
    [][\A t \in Tasks :
        (Looks(t) /\ retry_after[url'[t]] # None /\ retry_after[url'[t]][1] <= now) =>
            pc'[t] = "in_flight"
    ]_vars

(* C10: what handle returns is what next.run produced. *)
C10_OutcomeUnchanged ==
    \A t \in Tasks : pc[t] = "done" => (ret[t] = res[t] /\ res[t] \in Responses)

(* Three calls have returned: a failure, an unparseable header, a stored header. *)
C10_Witness ==
    \E t, s, r \in Tasks :
        /\ pc[t] = "done" /\ ret[t] = TransportError
        /\ pc[s] = "done" /\ ret[s].hdr \in Unparseable
        /\ pc[r] = "done" /\ ret[r].hdr = Some(<<"1">>) /\ retry_after[url[r]] # None

(* C11: when handle returns a successful response whose header parsed, the *)
(* entry of its url is exactly the parsed instant, whatever was stored     *)
(* before, and an entry never holds more than one instant.                 *)
C11_ParsedReplaces ==
    [][\A t \in Tasks :
        (Returns(t) /\ res'[t].ok /\ res'[t].hdr # None /\ res'[t].hdr \notin Unparseable) =>
            /\ retry_after'[url[t]] =
                  (IF pc[t] = "wait_write" THEN timestamp[t] ELSE Parsed(res'[t], now))
            /\ retry_after'[url[t]] # None
            /\ \A u \in URLS : Len(retry_after'[u]) <= 1
    ]_vars

(* The instant 2 of a date was replaced by the earlier instant 0 + 1. *)
C11_Witness ==
    \E t, s \in Tasks :
        /\ pc[t] = "done" /\ ret[t].hdr = Some(<<"1">>)
        /\ retry_after[url[t]] = Some(1)
        /\ pc[s] = "done" /\ url[s] = url[t]
        /\ ret[s].hdr = Some(<<DatePrefix, "0", "2", DateSuffix>>)

----------------------------------------------------------------------------
(* Header texts, as the claims about the parser describe them. *)

OnlyDigits(v) == v # <<>> /\ \A i \in 1..Len(v) : v[i] \in Digits

ValidDate(v) ==
    /\ Len(v) = 4
    /\ v[1] = DatePrefix
    /\ v[4] = DateSuffix
    /\ OnlyDigits(<<v[2], v[3]>>)
    /\ DecimalValue(<<v[2], v[3]>>) < 60

(* next.run resolved for the task with a success carrying the header text v. *)
Received(t, v) ==
    /\ pc[t] = "in_flight"
    /\ pc'[t] # "in_flight"
    /\ res'[t].ok
    /\ res'[t].hdr = Some(v)

C13_DigitsOnlyAccepted ==
    [][\A t \in Tasks : \A v \in SeqHeaderValues :
        Received(t, v) =>
            IF OnlyDigits(v) /\ DecimalValue(v) <= U64Max /\ now + DecimalValue(v) <= SystemTimeMax
            THEN retry_after'[url[t]] = Some(now + DecimalValue(v))
            ELSE IF OnlyDigits(v) \/ ValidDate(v)
            THEN TRUE
            ELSE retry_after' = retry_after
    ]_vars

(* C17: for every text of digits whose value fits in a u64, handle returns *)
(* the response and the url's entry is now + value.                        *)
C17_NoOverflow ==
    [][\A t \in Tasks : \A v \in SeqHeaderValues :
        (Received(t, v) /\ OnlyDigits(v) /\ DecimalValue(v) <= U64Max) =>
            /\ pc'[t] = "done"
            /\ ret'[t] = res'[t]
            /\ retry_after'[url[t]] = Some(now + DecimalValue(v))
    ]_vars

(* C14: the map changes only in a step in which some handle returns a      *)
(* successful response, and then only at that call's url; the clock's      *)
(* advance changes no entry.                                               *)
C14_LedgerFrame ==
    [][/\ retry_after' # retry_after =>
            \E t \in Tasks :
                /\ Returns(t)
                /\ res'[t].ok
                /\ \A u \in URLS \ {url[t]} : retry_after'[u] = retry_after[u]
       /\ now' # now => retry_after' = retry_after
    ]_vars

(* An instant that has passed is still stored after a call for the other url has returned
   and cleared its own entry. *)
C14_Witness ==
    \E u \in URLS :
        /\ retry_after[u] # None
        /\ retry_after[u][1] < now
        /\ \E t \in Tasks :
              /\ url[t] # u
              /\ pc[t] = "done" /\ ret[t].ok /\ ret[t].hdr = None
              /\ header_seen = URLS

(* What a written response asserts for its url: no entry, the date's       *)
(* instant, or the time of its parsing + 1.                                *)
Asserted(r) ==
    IF r.hdr = None THEN {None}
    ELSE IF r.hdr = Some(<<"1">>) THEN {Some(k) : k \in 1..(now + 1)}
    ELSE IF r.hdr = Some(<<DatePrefix, "0", "2", DateSuffix>>) THEN {Some(2)}
    ELSE {}

Writes(r) == r.ok /\ Asserted(r) # {}

(* C15: no read guard is held while the write guard is; when two calls for *)
(* the same url both wait for the write guard, each writes what its own    *)
(* response asserts, whole, while the other still waits; and once the two  *)
(* callers of a url have both returned from writing calls, the url's entry *)
(* is what one of the two responses asserted.                              *)
C15_LastWriteWins ==
    /\ [](writer # NoTask => readers = {})
    /\ [](\A u \in URLS : \A t, s \in Tasks :
            (/\ t # s
             /\ \A x \in Tasks : u \in Targets[x] => x \in {t, s}
             /\ pc[t] = "done" /\ url[t] = u /\ Writes(ret[t])
             /\ pc[s] = "done" /\ url[s] = u /\ Writes(ret[s])) =>
                retry_after[u] \in Asserted(ret[t]) \cup Asserted(ret[s]))
    /\ [][\A t, s \in Tasks :
            (/\ t # s
             /\ pc[t] = "wait_write" /\ pc[s] = "wait_write"
             /\ url[t] = url[s]
             /\ Returns(t)) =>
                /\ retry_after'[url[t]] = (IF res[t].hdr = None THEN None ELSE timestamp[t])
                /\ retry_after'[url[t]] \in Asserted(res[t])
                /\ pc'[s] = "wait_write"
       ]_vars

(* Two responses for one url that assert different things race for the write guard: one
   holds it, the other is queued. *)
C15_Witness ==
    \E t, s \in Tasks :
        /\ t # s
        /\ url[t] = url[s]
        /\ pc[t] = "wait_write" /\ writer = t
        /\ pc[s] = "wait_write" /\ InQueue(s)
        /\ res[t].hdr = Some(<<"1">>)
        /\ res[s].hdr = None
        /\ retry_after[url[t]] # None

(* C16: with a fair scheduler, a next.run that resolves and a clock that   *)
(* advances, every call of handle that is not dropped returns.             *)
C16_EveryCallReturns ==
    \A t \in Tasks :
        (pc[t] \in {"wait_read", "sleeping", "in_flight", "wait_write"}) ~> (pc[t] = "done")

(* A writer is queued behind the read guard of a sleeper whose instant is still to come, and
   a reader is queued behind that writer. *)
C16_Witness ==
    \E t, s, r \in Tasks :
        /\ pc[t] = "sleeping" /\ timestamp[t][1] > now
        /\ pc[s] = "wait_write" /\ InQueue(s)
        /\ pc[r] = "wait_read" /\ InQueue(r)

====
